---- MODULE Spec2Model ----
(***************************************************************************)
(* Model of the metals-curve ingestion handler of api/metals_run.js: the   *)
(* duplicate guard, the date checks, the history conflict check, the write *)
(* transaction on metals_curve_latest / metals_curve_history and the audit *)
(* log metals_ingest_log.                                                  *)
(*                                                                         *)
(* Every await of the handler is one step of the model.  The tables are    *)
(* sets of row versions: xmin is the transaction that inserted the version *)
(* and has not committed yet (0 once committed), xmax the open transaction *)
(* that deleted or replaced it (0 if none).  Other sessions see exactly    *)
(* the versions with xmin = 0.                                             *)
(***************************************************************************)
EXTENDS Integers, Sequences, FiniteSets, TLC

\* ------------------------------------------------------------------ bounds
MaxRuns  == 2        \* invocations in one behaviour
MaxLines == 2        \* data lines of a sheet
MaxDay   == 2        \* calendar days the clock runs through
NumProcs == 2        \* request slots (invocations that can be in flight)

Procs == 1..NumProcs

\* The calendar dates getTodayCT can return, in calendar order.
DayStr == <<"2024-01-01", "2024-01-02", "2024-01-03", "2024-01-04">>

Null == <<>>
Num(n) == <<n>>

\* ------------------------------------------------------------ pure helpers
\* String.prototype.startsWith on the trigger sources of the model.
\* A source is a sequence of characters.
startsWith(s, prefix) ==
    /\ Len(s) >= Len(prefix)
    /\ \A j \in 1..Len(prefix) : s[j] = prefix[j]

cron == <<"c", "r", "o", "n">>

\* The source parameter of the scheduled requests, cron_1.  A request
\* without the parameter has the source "unknown".
Sources == { <<"c", "r", "o", "n", "_", "1">> }

\* cleanField: trim, strip one pair of wrapping quotes, trim again.
\* Cells are strings of a fixed vocabulary; the table lists the cells whose
\* cleaned form differs from the cell itself.
cleanField(value) ==
    CASE value = " Gold "   -> "Gold"
      [] value = "\"Gold\"" -> "Gold"
      [] value = " 12 "     -> "12"
      [] value = " Metal "  -> "Metal"
      [] OTHER              -> value

toLowerCase(v) ==
    CASE v = "Gold"   -> "gold"
      [] v = "GOLD"   -> "gold"
      [] v = "Silver" -> "silver"
      [] v = "As Of Date"     -> "as of date"
      [] v = "Metal"          -> "metal"
      [] v = "Tenor Months"   -> "tenor months"
      [] v = "Tenor"          -> "tenor"
      [] v = "Price"          -> "price"
      [] v = "10 Yr Real Yld" -> "10 yr real yld"
      [] v = "Dollar Index"   -> "dollar index"
      [] v = "Deficit GDP Flag" -> "deficit gdp flag"
      [] OTHER        -> v

\* String.prototype.trim on the cells of the vocabulary.
trim(v) ==
    CASE v = " Gold "  -> "Gold"
      [] v = " 12 "    -> "12"
      [] v = " Metal " -> "Metal"
      [] OTHER         -> v

\* Not a number: a value apart from the numbers and from null.
NaN == <<0, 0>>

\* parseInt(v, 10) and parseFloat(v) on the cells of the vocabulary, which
\* holds no fractions: the number the text starts with, white space
\* skipped, or NaN.
parseFloat(v) ==
    CASE v = "0"     -> Num(0)
      [] v = "1"     -> Num(1)
      [] v = "12"    -> Num(12)
      [] v = " 12 "  -> Num(12)
      [] v = "-3"    -> Num(-3)
      [] v = "10"    -> Num(10)
      [] v = "20"    -> Num(20)
      [] v = "30"    -> Num(30)
      [] v = "1,200" -> Num(1)
      [] OTHER       -> NaN

parseInt(v) == parseFloat(v)

\* Number(cleaned) for the cells of the vocabulary, after the commas are
\* stripped and the text trimmed: the empty string is 0, text that is not a
\* number is NaN (Null here).
NumberOf(cleaned) ==
    CASE cleaned = ""      -> Num(0)
      [] cleaned = "0"     -> Num(0)
      [] cleaned = "1"     -> Num(1)
      [] cleaned = "12"    -> Num(12)
      [] cleaned = "-3"    -> Num(-3)
      [] cleaned = "10"    -> Num(10)
      [] cleaned = "20"    -> Num(20)
      [] cleaned = "30"    -> Num(30)
      [] cleaned = "1,200" -> Num(1200)
      [] OTHER             -> Null

Undefined == "<undefined>"

toNumber(value) ==
    IF value = Undefined THEN Null ELSE NumberOf(value)

isFinite(n) == n # Null

\* Array.prototype.indexOf, 1-based; 0 when absent (the code's -1).
indexOf(header, label) ==
    IF \E j \in 1..Len(header) : header[j] = label
    THEN CHOOSE j \in 1..Len(header) :
            /\ header[j] = label
            /\ \A k \in 1..(j - 1) : header[k] # label
    ELSE 0

\* cols[idx] of a line that may be shorter than the header.
Col(cols, j) == IF j \in 1..Len(cols) THEN cleanField(cols[j]) ELSE Undefined

CanonicalHeader ==
    << "As Of Date", "Metal", "Tenor Months", "Price", "10 Yr Real Yld",
       "Dollar Index", "Deficit GDP Flag" >>

\* One data line of the sheet to the row it yields, or Null when the line is
\* skipped.  A sheet is [header |-> sequence of labels, lines |-> sequence
\* of lines], a line a sequence of cells (the CSV tokenizer is not modelled).
\* dollar_index and deficit_gdp_flag are carried exactly like real_10yr_yld
\* and price and are left out of the rows.
parseLine(header, cols) ==
    LET asOf     == Col(cols, indexOf(header, "As Of Date"))
        metalRaw == Col(cols, indexOf(header, "Metal"))
        metal    == IF metalRaw = Undefined THEN Undefined
                    ELSE toLowerCase(metalRaw)
        tenor    == toNumber(Col(cols, indexOf(header, "Tenor Months")))
        price    == toNumber(Col(cols, indexOf(header, "Price")))
        real     == toNumber(Col(cols, indexOf(header, "10 Yr Real Yld")))
    IN  IF asOf \in {"", Undefined} \/ metal \in {"", Undefined} THEN Null
        ELSE IF ~isFinite(tenor) THEN Null
        ELSE << [ as_of_date    |-> asOf,
                  metal         |-> metal,
                  tenor_months  |-> tenor[1],
                  price         |-> IF isFinite(price) THEN price[1] ELSE 0,
                  real_10yr_yld |-> IF isFinite(real) THEN real ELSE Null ] >>

RECURSIVE parseLines(_, _)
parseLines(header, lines) ==
    IF lines = <<>> THEN <<>>
    ELSE LET cols == Head(lines)
             \* a blank line is the single empty cell
             one  == IF cols = <<"">> THEN Null ELSE parseLine(header, cols)
         IN  one \o parseLines(header, Tail(lines))

headerOk(header) ==
    \A label \in { CanonicalHeader[j] : j \in 1..Len(CanonicalHeader) } :
        indexOf(header, label) > 0

parseMetalsCsv(sheet) ==
    IF Len(sheet.lines) < 1 THEN <<>>
    ELSE LET header == [j \in 1..Len(sheet.header) |-> cleanField(sheet.header[j])]
         IN  IF ~headerOk(header) THEN <<>>
             ELSE parseLines(header, sheet.lines)


\* ------------------------------------------------------------------ inputs
BadHeader ==
    << "As Of Date", "Metal", "Tenor", "Price", "10 Yr Real Yld",
       "Dollar Index", "Deficit GDP Flag" >>

\* A data line in the column order of CanonicalHeader.
Line(asOf, metal, tenor, price, real) ==
    << asOf, metal, tenor, price, real, "", "" >>

\* The price of a line goes with its date, so that the batches of two days
\* differ in their values as well.
PriceOn == << <<"10", "abc">>, <<"20", "1">>, <<"30", "">>, <<"1,200", "1">> >>

SheetLines ==
    { Line(DayStr[d], "Gold", t, PriceOn[d][1], PriceOn[d][2]) :
        d \in 1..MaxDay, t \in {"1", "12"} }

BadLine == Line(DayStr[1], " Gold ", "abc", "30", "1")

SeqsUpTo(S, n) == UNION { [1..k -> S] : k \in 0..n }

Sheets ==
    { [header |-> CanonicalHeader, lines |-> L] : L \in SeqsUpTo(SheetLines, MaxLines) }
    \cup { [header |-> BadHeader,
            lines  |-> << Line(DayStr[1], "Gold", "1", "10", "1") >>],
           [header |-> CanonicalHeader, lines |-> << BadLine >>],
           [header |-> CanonicalHeader,
            lines  |-> << BadLine, Line(DayStr[MaxDay], "\"Gold\"", " 12 ", "20", "1") >>] }

\* The sheets served while two invocations overlap: today's sheet, with one
\* row or, at other prices, with two; a sheet whose header lacks a column;
\* a sheet whose only line has no numeric tenor.
ConcSheets ==
    { [header |-> CanonicalHeader, lines |-> L] :
        L \in { << Line(DayStr[1], "Gold", "1", PriceOn[1][1], PriceOn[1][2]) >>,
                << Line(DayStr[1], "Gold", "1", PriceOn[2][1], PriceOn[2][2]),
                   Line(DayStr[1], "Gold", "12", PriceOn[2][1], PriceOn[2][2]) >>,
                << BadLine >> } }
    \cup { [header |-> BadHeader,
            lines  |-> << Line(DayStr[1], "Gold", "1", "10", "1") >>] }

\* The sheets given to the parser alone: lines of today's Gold with every
\* kind of tenor and price cell, and a line cut short before the tenor.
ParseLines ==
    { Line(DayStr[1], "Gold", t, price, "1") :
        t \in {"", "12", "abc", " 12 ", "-3"}, price \in {"10", "abc", ""} }
    \cup { << DayStr[1], "Gold" >> }

\* The canonical header and three headers that differ from it in the
\* label of one column: in blanks around it, in letter case, in blanks
\* inside it.
ParseHeaders ==
    { CanonicalHeader,
      [CanonicalHeader EXCEPT ![2] = " Metal "],
      [CanonicalHeader EXCEPT ![2] = "metal"],
      [CanonicalHeader EXCEPT ![3] = "Tenor  Months"] }

ParseSheets ==
    { [header |-> hd, lines |-> L] :
        hd \in ParseHeaders, L \in SeqsUpTo(ParseLines, MaxLines) \ { <<>> } }

\* ------------------------------------------------------------------- state
VARIABLES
    today,      \* index into DayStr of the current day in America/Chicago
    nruns,      \* invocations started so far
    latest,     \* metals_curve_latest, row versions
    history,    \* metals_curve_history, row versions
    log,        \* metals_ingest_log, in insertion order
    h,          \* h[p]: the locals of invocation p and its position
    pre,        \* pre[p]: the committed tables when invocation p started
    st,         \* the locals of the status request and its position
    clock,      \* the instant of a call of getTodayCT and the server's zone
    ld          \* the locals of the /api/run metals loader and its position

vars == << today, nruns, latest, history, log, h, pre, st, clock, ld >>

NoReason == <<>>

Idle ==
    [ pc |-> "idle", run |-> 0, source |-> <<>>, force |-> FALSE,
      todayStr |-> "", csvText |-> <<>>, rows |-> <<>>, sheetDate |-> "",
      existingHistory |-> {}, i |-> 0, failedAt |-> "", client |-> "none",
      logArgs |-> [status |-> "", reason |-> NoReason, rowCount |-> 0],
      res |-> [code |-> 0, body |-> <<>>] ]

NoPre == [latest |-> {}, history |-> {}, log |-> <<>>]

\* No call of getTodayCT is looked at.
NoClock == [now |-> 0, tz |-> <<>>]

\* No /api/run request.
\* before is CurveHistory when the request came in.
LdIdle ==
    [ pc |-> "idle", run |-> 0, header |-> <<>>, rows |-> <<>>, i |-> 0,
      processed |-> 0, skipped |-> 0, before |-> {},
      res |-> [code |-> 0, body |-> <<>>] ]

\* No status request.  unseen is the part of metals_curve_latest that open
\* transactions had written when the request read the table.
StIdle ==
    [ pc |-> "idle", qDate |-> "", rows |-> {}, unseen |-> {},
      res |-> [code |-> 0, body |-> <<>>] ]

\* What the other sessions see of a table: the committed versions.
Data(r) == [f \in (DOMAIN r) \ {"xmin", "xmax"} |-> r[f]]
Committed(T) == { Data(r) : r \in { x \in T : x.xmin = 0 } }

LatestCurve  == Committed(latest)
CurveHistory == Committed(history)

\* What transaction p sees: committed versions and its own, minus the ones
\* it deleted itself.
VisibleTo(T, p) == { r \in T : r.xmin \in {0, p} /\ r.xmax # p }

\* A statement of p that touches the versions S waits while another open
\* transaction holds one of them.
Blocked(S, p) == \E r \in S : r.xmax \notin {0, p} \/ r.xmin \notin {0, p}

\* Mutant: a DELETE takes effect outside the transaction.
DeleteRows_now(T, p, S) == T \ S

\* The table after transaction p has deleted the versions S: its own
\* versions go, the committed ones are marked.
DeleteRows(T, p, S) ==
    (T \ S) \cup { [r EXCEPT !.xmax = p] : r \in { x \in S : x.xmin = 0 } }

CommitTx(T, p) ==
    { [r EXCEPT !.xmin = IF @ = p THEN 0 ELSE @] : r \in { x \in T : x.xmax # p } }

\* Mutant: the versions of the failed transaction stay, as if committed.
RollbackTx_keep(T, p) ==
    { [r EXCEPT !.xmin = 0, !.xmax = 0] : r \in T }

\* Mutant: the rows the failed transaction deleted stay deleted.
RollbackTx_dropDeleted(T, p) ==
    { x \in T : x.xmin # p /\ x.xmax # p }

RollbackTx(T, p) ==
    { [r EXCEPT !.xmax = IF @ = p THEN 0 ELSE @] : r \in { x \in T : x.xmin # p } }

Init ==
    /\ today = 1
    /\ nruns = 0
    /\ latest = {}
    /\ history = {}
    /\ log = <<>>
    /\ h = [p \in Procs |-> Idle]
    /\ pre = [p \in Procs |-> NoPre]
    /\ st = StIdle
    /\ clock = NoClock
    /\ ld = LdIdle

\* ---------------------------------------------------------------- run date
\* Time is counted in hours; a wall clock time is the hours since the start
\* of day 0 on the clocks of a zone.  A zone is its UTC offset before and
\* after one transition, at the instant `at`; the days of the model stand
\* for whatever consecutive days hold the transitions.
utcOffset(z, t) == IF t < z.at THEN z.before ELSE z.after
wallClock(z, t) == t + utcOffset(z, t)

\* America/Chicago, going from CST to CDT at 02:00 of day 2.
Chicago == [before |-> 0 - 6, after |-> 0 - 5, at |-> 56]

\* The zones the server may be set to: UTC, America/Chicago itself, a zone
\* far to the east, one that skips 02:00-03:00 of day 1, one that skips
\* 00:00-01:00 of day 2, and one that repeats 23:00-24:00 of day 1.
ServerZones ==
    { [before |-> 0, after |-> 0, at |-> 0],
      Chicago,
      [before |-> 9, after |-> 9, at |-> 0],
      [before |-> 1, after |-> 2, at |-> 25],
      [before |-> 0 - 5, after |-> 0 - 4, at |-> 53],
      [before |-> 0 - 3, after |-> 0 - 4, at |-> 51] }

\* The instants of the days 1..MaxDay of America/Chicago.
Hours == { t \in 0..(24 * (MaxDay + 2)) : wallClock(Chicago, t) \div 24 \in 1..MaxDay }

\* Line 22: Date.prototype.toLocaleString("en-US", {timeZone}), the date and
\* the time on the 12-hour clock of the zone.
toLocaleString(now, timeZone) ==
    LET w == wallClock(timeZone, now)
        hour == w % 24
    IN  [ date |-> w \div 24,
          hour |-> IF hour % 12 = 0 THEN 12 ELSE hour % 12,
          pm |-> hour >= 12 ]

\* Line 23: new Date(string), the string read as a time on the clocks of
\* the server.  A time the clocks show twice is the earlier instant; a time
\* they skip is taken with the offset before the transition.
DateOf(ctString, local) ==
    LET w == 24 * ctString.date + (ctString.hour % 12)
                + (IF ctString.pm THEN 12 ELSE 0)
        instants == { t \in (w - 14)..(w + 14) : wallClock(local, t) = w }
    IN  IF instants = {} THEN w - local.before
        ELSE CHOOSE t \in instants : \A u \in instants : t <= u

\* Mutant: the date is read off the instant in UTC (getUTCDate).
localDate_utc(t, local) == t \div 24

\* Lines 24-26: getFullYear, getMonth and getDate, the date of the instant
\* on the clocks of the server.
localDate(t, local) == wallClock(local, t) \div 24

\* Lines 25-27: the date as YYYY-MM-DD; the model names the days of DayStr.
ymd(day) == IF day \in DOMAIN DayStr THEN DayStr[day] ELSE "another day"

\* Lines 20-28.
getTodayCT(now, local) ==
    LET ctString == toLocaleString(now, Chicago)
        ctDate == DateOf(ctString, local)
    IN  ymd(localDate(ctDate, local))

InitDate ==
    /\ today = 1
    /\ nruns = 0
    /\ latest = {}
    /\ history = {}
    /\ log = <<>>
    /\ pre = [p \in Procs |-> NoPre]
    /\ st = StIdle
    /\ ld = LdIdle
    /\ h = [p \in Procs |-> IF p = 1 THEN [Idle EXCEPT !.pc = "now"] ELSE Idle]
    /\ \E now \in Hours, tz \in ServerZones : clock = [now |-> now, tz |-> tz]

\* Line 194: const todayStr = getTodayCT().
Resolve ==
    /\ h[1].pc = "now"
    /\ h' = [h EXCEPT ![1].pc = "resolved",
                      ![1].todayStr = getTodayCT(clock.now, clock.tz)]
    /\ UNCHANGED << today, nruns, latest, history, log, pre, st, clock, ld >>

SpecDate == InitDate /\ [][Resolve]_vars

\* ----------------------------------------------------------------- helpers
Goto(p, pc) == h' = [h EXCEPT ![p].pc = pc]

\* "await logIngest(...); return res...": remember the arguments of the
\* audit insert and the response that follows it.
ThenLog(p, status, reason, rowCount, code, body) ==
    [h[p] EXCEPT !.pc = "logIngest",
                 !.logArgs = [status |-> status, reason |-> reason,
                              rowCount |-> rowCount],
                 !.res = [code |-> code, body |-> body]]

AllIdle == \A q \in Procs : h[q].pc = "idle"

\* The set of the as_of_date values of the rows.
uniqueDates(rows) == { rows[j].as_of_date : j \in 1..Len(rows) }

unknown == <<"u", "n", "k", "n", "o", "w", "n">>

\* ----------------------------------------------------------------- actions
\* Lines 178-189: the token checks, before any connection is taken.
Rejected(p, overlap) ==
    /\ h[p].pc = "idle"
    /\ overlap \/ (AllIdle /\ p = 1)
    /\ \E tokenConfigured \in BOOLEAN :
          h' = [h EXCEPT ![p].pc = "returned",
                         ![p].res =
                            IF ~tokenConfigured
                            THEN [code |-> 500,
                                  body |-> [error |-> "METALS_INGEST_TOKEN not configured in environment"]]
                            ELSE [code |-> 401, body |-> [error |-> "unauthorized"]]]
    /\ UNCHANGED << today, nruns, latest, history, log, pre, st, clock, ld >>

\* Lines 191-195: an authorized request reads source, force and today's
\* date and takes a pooled connection.  overlap says whether invocations
\* may run concurrently; when they run one after the other, slot 1 serves
\* them all.
Start(p, overlap) ==
    /\ h[p].pc = "idle"
    /\ overlap \/ (AllIdle /\ p = 1)
    /\ nruns < MaxRuns
    /\ \E querySource \in Sources \cup {<<>>}, queryForce \in {"", "0", "1", "true"} :
          h' = [h EXCEPT ![p] =
                  [Idle EXCEPT !.pc = "connect",
                               !.run = nruns + 1,
                               !.source = IF querySource = <<>> THEN unknown
                                          ELSE querySource,
                               !.force = (queryForce = "1"),
                               !.todayStr = DayStr[today]]]
    /\ nruns' = nruns + 1
    /\ pre' = [pre EXCEPT ![p] = [latest |-> LatestCurve,
                                  history |-> CurveHistory,
                                  log |-> log]]
    /\ UNCHANGED << today, latest, history, log, st, clock, ld >>

\* Line 195: pool.connect() resolves.
Connect(p) ==
    /\ h[p].pc = "connect"
    /\ h' = [h EXCEPT ![p].pc = "checkLog", ![p].client = "held"]
    /\ UNCHANGED << today, nruns, latest, history, log, pre, st, clock, ld >>

\* Line 195: pool.connect() rejects; the call is outside the try block, so
\* the handler ends with the exception and neither logs nor releases.
ConnectFails(p) ==
    /\ h[p].pc = "connect"
    /\ h' = [h EXCEPT ![p].pc = "returned", ![p].failedAt = "connect",
                      ![p].res = [code |-> 500, body |-> [thrown |-> "connect"]]]
    /\ UNCHANGED << today, nruns, latest, history, log, pre, st, clock, ld >>

\* Mutant: the guard looks for a status the audit log never holds.
hasSuccessToday_wrongStatus(p) ==
    \E j \in 1..Len(log) :
        log[j].run_date = h[p].todayStr /\ log[j].status = "ok"

\* Mutant: any record of the run date counts.
hasSuccessToday_anyRecord(p) ==
    \E j \in 1..Len(log) : log[j].run_date = h[p].todayStr

hasSuccessToday(p) ==
    \E j \in 1..Len(log) :
        log[j].run_date = h[p].todayStr /\ log[j].status = "success"

\* Mutant: there is no duplicate guard.
skipDuplicate_never(source, hasSuccess, force) == FALSE

\* Mutant: the duplicate guard does not look at the source.
skipDuplicate_anySource(source, hasSuccess, force) == hasSuccess /\ ~force

\* Line 212: the condition of the duplicate guard.
skipDuplicate(source, hasSuccess, force) ==
    startsWith(source, cron) /\ hasSuccess /\ ~force

\* Lines 198-226: the duplicate guard.
CheckLog(p) ==
    /\ h[p].pc = "checkLog"
    /\ IF skipDuplicate(h[p].source, hasSuccessToday(p), h[p].force)
       THEN h' = [h EXCEPT ![p] =
                    ThenLog(p, "skipped", <<"already_ingested_today">>, 0, 200,
                            [ok |-> TRUE, skipped |-> TRUE,
                             reason |-> "already_ingested_today"])]
       ELSE Goto(p, "fetch")
    /\ UNCHANGED << today, nruns, latest, history, log, pre, st, clock, ld >>

\* Mutant: with several dates in the sheet, one of them is taken.
sheetDateOf_any(dates) == CHOOSE d \in dates : TRUE

\* Line 269: the single date of the sheet, "" (the code's null) otherwise.
sheetDateOf(dates) ==
    IF Cardinality(dates) = 1 THEN CHOOSE d \in dates : TRUE ELSE ""

\* Mutant: the sheet date is not compared with the run date.
dateMismatch_never(sheetDate, todayStr) == FALSE

\* Line 287.
dateMismatch(sheetDate, todayStr) == sheetDate # todayStr

\* Mutant: a forced run writes the rows with the dates of the sheet.
forceDates_keep(rows, todayStr) == rows

\* Mutant: a forced run dates the first row only with the run date.
forceDates_firstOnly(rows, todayStr) ==
    [j \in 1..Len(rows) |->
        IF j = 1 THEN [rows[j] EXCEPT !.as_of_date = todayStr] ELSE rows[j]]

\* Lines 306-309: a forced run dates every row with the run date.
forceDates(rows, todayStr) ==
    [j \in 1..Len(rows) |-> [rows[j] EXCEPT !.as_of_date = todayStr]]

\* Lines 267-310 on the parsed rows: the response of a failed date check,
\* or the rows and sheetDate the run goes on with.
DateValidation(p, rows) ==
    LET dates     == uniqueDates(rows)
        sheetDate == sheetDateOf(dates)
    IN  IF ~h[p].force
        THEN IF sheetDate = ""
             THEN [ThenLog(p, "error", <<"multiple_as_of_dates_in_sheet">>,
                           Len(rows), 400,
                           [error |-> "multiple_as_of_dates_in_sheet",
                            uniqueDates |-> dates])
                     EXCEPT !.rows = rows]
             ELSE IF dateMismatch(sheetDate, h[p].todayStr)
             THEN [ThenLog(p, "error",
                           <<"sheet_date_mismatch", sheetDate, h[p].todayStr>>,
                           Len(rows), 400,
                           [error |-> "sheet_date_mismatch",
                            sheetDate |-> sheetDate,
                            expectedDate |-> h[p].todayStr])
                     EXCEPT !.rows = rows, !.sheetDate = sheetDate]
             ELSE [h[p] EXCEPT !.pc = "selectHistory", !.rows = rows,
                               !.sheetDate = sheetDate]
        ELSE [h[p] EXCEPT !.pc = "selectHistory",
                          !.rows = forceDates(rows, h[p].todayStr),
                          !.sheetDate = h[p].todayStr]

\* Lines 228-310: fetch the sheet, parse it and validate its dates.  The
\* sheet that the URL serves is one of sheets.
FetchFrom(p, sheets) ==
    /\ h[p].pc = "fetch"
    /\ \/ h' = [h EXCEPT ![p] =
                  ThenLog(p, "error", <<"METALS_CSV_URL_not_configured">>, 0, 500,
                          [error |-> "METALS_CSV_URL not configured in environment"])]
       \/ h' = [h EXCEPT ![p] =
                  ThenLog(p, "error", <<"fetch_failed">>, 0, 500,
                          [error |-> "fetch_failed"])]
       \/ \E sheet \in sheets :
            LET rows == parseMetalsCsv(sheet)
                next == IF rows = <<>>
                        THEN ThenLog(p, "error",
                                     <<"no_rows_in_sheet_or_bad_headers">>, 0, 400,
                                     [error |-> "no_rows_in_sheet_or_bad_headers"])
                        ELSE DateValidation(p, rows)
            IN  h' = [h EXCEPT ![p] = [next EXCEPT !.csvText = sheet]]
    /\ UNCHANGED << today, nruns, latest, history, log, pre, st, clock, ld >>

Fetch(p) == FetchFrom(p, Sheets)

\* The locals of the try block (rows, sheetDate, existingHistory) are out
\* of scope in the catch block.  failedAt keeps the statement that threw.
Caught(p) ==
    [Idle EXCEPT !.pc = "catch", !.run = h[p].run, !.source = h[p].source,
                 !.force = h[p].force, !.todayStr = h[p].todayStr,
                 !.failedAt = h[p].pc, !.client = h[p].client]

\* Lines 244 and 250: fetch() or resp.text() rejects.
FetchThrows(p) ==
    /\ h[p].pc = "fetch"
    /\ h' = [h EXCEPT ![p] = Caught(p)]
    /\ UNCHANGED << today, nruns, latest, history, log, pre, st, clock, ld >>

\* Mutant: the conflict check never fires.
historyConflict_never(existing, force) == FALSE

\* Mutant: the conflict check fires for forced runs instead.
historyConflict_whenForced(existing, force) == existing # {} /\ force

\* Line 331: history rows of the date exist and the run is not forced.
historyConflict(existing, force) == existing # {} /\ ~force

\* Mutant: the purge is for the runs that are not forced.
purgeHistory_whenNotForced(existing, force) == existing # {} /\ ~force

\* Mutant: a forced run leaves the history rows of the date in place.
purgeHistory_never(existing, force) == FALSE

\* Line 355: a forced run purges the history rows of the date.
purgeHistory(existing, force) == existing # {} /\ force

SuccessOn(l, date) ==
    \E j \in 1..Len(l) : l[j].run_date = date /\ l[j].status = "success"

\* Mutant: the rows of the date count only if the audit log holds a
\* success record of the date.
historyOf_ifLogged(sheetDate) ==
    IF SuccessOn(log, sheetDate)
    THEN { r \in CurveHistory : r.as_of_date = sheetDate }
    ELSE {}

\* Lines 315-328: the rows of metals_curve_history WHERE as_of_date =
\* sheetDate.
historyOf(sheetDate) == { r \in CurveHistory : r.as_of_date = sheetDate }

\* Lines 312-349: the history conflict check.
SelectHistory(p) ==
    /\ h[p].pc = "selectHistory"
    /\ LET existing == historyOf(h[p].sheetDate)
       IN  h' = [h EXCEPT ![p] =
                   IF historyConflict(existing, h[p].force)
                   THEN [ThenLog(p, "skipped", <<"history_exists_for_date">>,
                                 Cardinality(existing), 409,
                                 [status |-> "exists",
                                  as_of_date |-> h[p].sheetDate,
                                  existing_row_count |-> Cardinality(existing),
                                  existing_rows |-> existing])
                           EXCEPT !.existingHistory = existing]
                   ELSE [h[p] EXCEPT !.pc = "begin",
                                     !.existingHistory = existing]]
    /\ UNCHANGED << today, nruns, latest, history, log, pre, st, clock, ld >>

\* Line 352.
Begin(p) ==
    /\ h[p].pc = "begin"
    /\ Goto(p, IF purgeHistory(h[p].existingHistory, h[p].force)
               THEN "deleteHistory" ELSE "deleteLatest")
    /\ UNCHANGED << today, nruns, latest, history, log, pre, st, clock, ld >>

\* Mutant: the purge has no WHERE clause.
purgedHistory_all(T, p, sheetDate) == VisibleTo(T, p)

\* Lines 356-359: the rows WHERE as_of_date = sheetDate.
purgedHistory(T, p, sheetDate) ==
    { r \in VisibleTo(T, p) : r.as_of_date = sheetDate }

\* Lines 355-363: the forced purge of the history rows of sheetDate.
DeleteHistory(p) ==
    /\ h[p].pc = "deleteHistory"
    /\ LET S == purgedHistory(history, p, h[p].sheetDate)
       IN  /\ ~Blocked(S, p)
           /\ history' = DeleteRows(history, p, S)
    /\ Goto(p, "deleteLatest")
    /\ UNCHANGED << today, nruns, latest, log, pre, st, clock, ld >>

\* Mutant: the rows of the sheet date stay in metals_curve_latest.
staleLatest_none(T, p, sheetDate) == {}

\* Lines 367-371: the rows WHERE as_of_date = sheetDate.
staleLatest(T, p, sheetDate) ==
    { r \in VisibleTo(T, p) : r.as_of_date = sheetDate }

\* Lines 365-372.
DeleteLatest(p) ==
    /\ h[p].pc = "deleteLatest"
    /\ LET S == staleLatest(latest, p, h[p].sheetDate)
       IN  /\ ~Blocked(S, p)
           /\ latest' = DeleteRows(latest, p, S)
    /\ h' = [h EXCEPT ![p].pc = "upsertLatest", ![p].i = 1]
    /\ UNCHANGED << today, nruns, history, log, pre, st, clock, ld >>

\* Mutant: the uniqueness check sees only what the transaction can read.
Conflicting_visibleOnly(T, p, r) ==
    { x \in VisibleTo(T, p) : /\ x.metal = r.metal
                              /\ x.tenor_months = r.tenor_months }

\* The versions of metals_curve_latest that an upsert of row r by p
\* conflicts with on (metal, tenor_months): all versions of the key but the
\* committed ones p has deleted itself.
Conflicting(T, p, r) ==
    { x \in T : /\ x.metal = r.metal
                /\ x.tenor_months = r.tenor_months
                /\ ~(x.xmin = 0 /\ x.xmax = p) }

\* Mutant: ON CONFLICT DO UPDATE of every column but price.
upsert_keepPrice(T, p, r, now) ==
    LET old == { x \in Conflicting(T, p, r) : x.xmax = 0 }
    IN  DeleteRows(T, p, Conflicting(T, p, r))
        \cup { [ as_of_date |-> r.as_of_date, metal |-> r.metal,
                 tenor_months |-> r.tenor_months,
                 price |-> IF old = {} THEN r.price
                           ELSE (CHOOSE x \in old : TRUE).price,
                 real_10yr_yld |-> r.real_10yr_yld,
                 updated_at |-> now, xmin |-> p, xmax |-> 0 ] }

\* Mutant: ON CONFLICT DO NOTHING.
upsert_doNothing(T, p, r, now) ==
    IF Conflicting(T, p, r) # {} THEN T
    ELSE T \cup { [ as_of_date |-> r.as_of_date, metal |-> r.metal,
                    tenor_months |-> r.tenor_months, price |-> r.price,
                    real_10yr_yld |-> r.real_10yr_yld,
                    updated_at |-> now, xmin |-> p, xmax |-> 0 ] }

\* Lines 376-400: INSERT ... ON CONFLICT (metal, tenor_months) DO UPDATE SET
\* every column: the table after the statement.
upsert(T, p, r, now) ==
    DeleteRows(T, p, Conflicting(T, p, r))
    \cup { [ as_of_date |-> r.as_of_date, metal |-> r.metal,
             tenor_months |-> r.tenor_months, price |-> r.price,
             real_10yr_yld |-> r.real_10yr_yld,
             updated_at |-> now, xmin |-> p, xmax |-> 0 ] }

\* Lines 375-401, one pass of the loop.
UpsertLatest(p) ==
    /\ h[p].pc = "upsertLatest"
    /\ LET r == h[p].rows[h[p].i]
       IN  /\ ~Blocked(Conflicting(latest, p, r), p)
           /\ latest' = upsert(latest, p, r, h[p].run)
    /\ h' = IF h[p].i < Len(h[p].rows)
            THEN [h EXCEPT ![p].i = @ + 1]
            ELSE [h EXCEPT ![p].pc = "insertHistory", ![p].i = 1]
    /\ UNCHANGED << today, nruns, history, log, pre, st, clock, ld >>

\* Mutant: the history loop inserts nothing.
InsertHistory_none(p) ==
    /\ h[p].pc = "insertHistory"
    /\ h' = [h EXCEPT ![p].pc = "commit"]
    /\ UNCHANGED << today, nruns, latest, history, log, pre, st, clock, ld >>

\* Lines 404-422, one pass of the loop.  seq tells apart the rows that one
\* run inserts with equal columns.
InsertHistory(p) ==
    /\ h[p].pc = "insertHistory"
    /\ LET r   == h[p].rows[h[p].i]
           new == [ as_of_date |-> r.as_of_date, metal |-> r.metal,
                    tenor_months |-> r.tenor_months, price |-> r.price,
                    real_10yr_yld |-> r.real_10yr_yld,
                    inserted_at |-> h[p].run, seq |-> h[p].i,
                    xmin |-> p, xmax |-> 0 ]
       IN  history' = history \cup {new}
    /\ h' = IF h[p].i < Len(h[p].rows)
            THEN [h EXCEPT ![p].i = @ + 1]
            ELSE [h EXCEPT ![p].pc = "commit"]
    /\ UNCHANGED << today, nruns, latest, log, pre, st, clock, ld >>

\* Lines 424-432: COMMIT, then the success record and the response.
Commit(p) ==
    /\ h[p].pc = "commit"
    /\ latest' = CommitTx(latest, p)
    /\ history' = CommitTx(history, p)
    /\ h' = [h EXCEPT ![p] =
               ThenLog(p, "success", NoReason, Len(h[p].rows), 200,
                       [ok |-> TRUE, sheetDate |-> h[p].sheetDate,
                        rowCount |-> Len(h[p].rows),
                        trigger_source |-> h[p].source])]
    /\ UNCHANGED << today, nruns, log, pre, st, clock, ld >>

\* A client.query of the try block rejects (lines 199, 315, 352-424).  The
\* versions the transaction has written stay uncommitted; a COMMIT that
\* rejects has not committed.
QueryPcs == { "checkLog", "selectHistory", "begin", "deleteHistory",
              "deleteLatest", "upsertLatest", "insertHistory", "commit" }

QueryFails(p) ==
    /\ h[p].pc \in QueryPcs
    /\ h' = [h EXCEPT ![p] = Caught(p)]
    /\ UNCHANGED << today, nruns, latest, history, log, pre, st, clock, ld >>

\* Mutant: after the ROLLBACK the write transaction is tried again.
Rollback_retry(p) ==
    /\ h[p].pc = "catch"
    /\ latest' = RollbackTx(latest, p)
    /\ history' = RollbackTx(history, p)
    /\ h' = [h EXCEPT ![p].pc = "begin", ![p].failedAt = ""]
    /\ UNCHANGED << today, nruns, log, pre, st, clock, ld >>

\* Lines 433-448: ROLLBACK, then the error record and the 500 response.
\* Whether the ROLLBACK statement itself succeeds or not, the versions the
\* open transaction wrote are never committed.
Rollback(p) ==
    /\ h[p].pc = "catch"
    /\ latest' = RollbackTx(latest, p)
    /\ history' = RollbackTx(history, p)
    /\ h' = [h EXCEPT ![p] =
               ThenLog(p, "error", <<"unhandled_exception">>, 0, 500,
                       [error |-> "unhandled_exception"])]
    /\ UNCHANGED << today, nruns, log, pre, st, clock, ld >>

\* Lines 31-44: the audit insert; a failure is caught and only printed.
LogRecord(p) ==
    [ run_date |-> h[p].todayStr, source |-> h[p].source,
      status |-> h[p].logArgs.status, reason |-> h[p].logArgs.reason,
      row_count |-> h[p].logArgs.rowCount, logged_at |-> h[p].run ]

\* Mutant: the record of the run takes the place of the last record.
logIngest_replace(p) ==
    /\ h[p].pc = "logIngest"
    /\ log' = IF log = <<>> THEN << LogRecord(p) >>
              ELSE [log EXCEPT ![Len(log)] = LogRecord(p)]
    /\ Goto(p, "finally")
    /\ UNCHANGED << today, nruns, latest, history, pre, st, clock, ld >>

logIngest(p) ==
    /\ h[p].pc = "logIngest"
    /\ log' = Append(log, LogRecord(p))
    /\ Goto(p, "finally")
    /\ UNCHANGED << today, nruns, latest, history, pre, st, clock, ld >>

\* Mutant: logIngest has no try/catch, and the failure reaches the handler.
logIngestFails_throws(p) ==
    /\ h[p].pc = "logIngest"
    /\ h' = [h EXCEPT ![p] = Caught(p)]
    /\ UNCHANGED << today, nruns, latest, history, log, pre, st, clock, ld >>

\* Lines 40-43: the audit insert rejects; logIngest catches the error and
\* prints it, and the handler goes on to its return statement.
logIngestFails(p) ==
    /\ h[p].pc = "logIngest"
    /\ h' = [h EXCEPT ![p].pc = "finally",
                      ![p].failedAt = IF @ = "" THEN "logIngest" ELSE @]
    /\ UNCHANGED << today, nruns, latest, history, log, pre, st, clock, ld >>

\* Mutant: the release sits at the end of the try block, not in finally.
Release_inTry(p) ==
    /\ h[p].pc = "finally"
    /\ h' = [h EXCEPT ![p].pc = "returned",
                      ![p].client = IF h[p].failedAt = "" THEN "released" ELSE @]
    /\ UNCHANGED << today, nruns, latest, history, log, pre, st, clock, ld >>

\* Lines 449-451: client.release(), and the response goes out.
Release(p) ==
    /\ h[p].pc = "finally"
    /\ h' = [h EXCEPT ![p].pc = "returned", ![p].client = "released"]
    /\ UNCHANGED << today, nruns, latest, history, log, pre, st, clock, ld >>

\* The invocation is over; its slot can take the next request.
Forget(p) ==
    /\ h[p].pc = "returned"
    /\ h' = [h EXCEPT ![p] = Idle]
    /\ pre' = [pre EXCEPT ![p] = NoPre]
    /\ UNCHANGED << today, nruns, latest, history, log, st, clock, ld >>

\* Midnight in America/Chicago.
Tick ==
    /\ today < MaxDay
    /\ today' = today + 1
    /\ UNCHANGED << nruns, latest, history, log, h, pre, st, clock, ld >>

Step(p) ==
    \/ Connect(p)
    \/ ConnectFails(p)
    \/ CheckLog(p)
    \/ Fetch(p)
    \/ FetchThrows(p)
    \/ SelectHistory(p)
    \/ Begin(p)
    \/ DeleteHistory(p)
    \/ DeleteLatest(p)
    \/ UpsertLatest(p)
    \/ InsertHistory(p)
    \/ Commit(p)
    \/ QueryFails(p)
    \/ Rollback(p)
    \/ logIngest(p)
    \/ logIngestFails(p)
    \/ Release(p)
    \/ Forget(p)

\* Invocations one after the other.
Next ==
    \/ \E p \in Procs : Rejected(p, FALSE)
    \/ \E p \in Procs : Start(p, FALSE)
    \/ \E p \in Procs : Step(p)
    \/ Tick

Spec == Init /\ [][Next]_vars

StepConc(p) ==
    \/ Connect(p)
    \/ ConnectFails(p)
    \/ CheckLog(p)
    \/ FetchFrom(p, ConcSheets)
    \/ FetchThrows(p)
    \/ SelectHistory(p)
    \/ Begin(p)
    \/ DeleteHistory(p)
    \/ DeleteLatest(p)
    \/ UpsertLatest(p)
    \/ InsertHistory(p)
    \/ Commit(p)
    \/ QueryFails(p)
    \/ Rollback(p)
    \/ logIngest(p)
    \/ logIngestFails(p)
    \/ Release(p)
    \/ Forget(p)

\* Invocations that overlap: the handler takes no lock, and each request
\* runs on its own pooled connection.
NextConc ==
    \/ \E p \in Procs : Rejected(p, TRUE)
    \/ \E p \in Procs : Start(p, TRUE)
    \/ \E p \in Procs : StepConc(p)

SpecConc == Init /\ [][NextConc]_vars

\* --------------------------------------------------- the status reporter
\* The columns metals_status.js selects from metals_curve_latest.
StatusColumns == {"as_of_date", "metal", "tenor_months", "price", "real_10yr_yld"}

\* Mutant: the SELECT reads the versions of open transactions as well.
curveResult_dirty(qDate) ==
    { [f \in StatusColumns |-> r[f]] :
        r \in { x \in latest : x.xmax = 0 /\ x.as_of_date = qDate } }

\* metals_status.js lines 128-143: the rows of the date.  Their order, by
\* metal and tenor_months, is fixed by the set, since the key is unique.
curveResult(qDate) ==
    { [f \in StatusColumns |-> r[f]] :
        r \in { x \in LatestCurve : x.as_of_date = qDate } }

\* metals_status.js lines 146-160: the record of the date inserted last.
logResult(qDate) ==
    LET J == { j \in 1..Len(log) : log[j].run_date = qDate }
    IN  IF J = {} THEN Null
        ELSE Num(log[CHOOSE j \in J : \A k \in J : k <= j])

\* metals_status.js lines 108-125: an authorized request takes the date of
\* the query, today's otherwise.
StatusStart ==
    /\ st.pc = "idle"
    /\ \E queryDate \in {""} \cup { DayStr[d] : d \in 1..MaxDay } :
          st' = [StIdle EXCEPT !.pc = "connect",
                               !.qDate = IF queryDate # "" THEN queryDate
                                         ELSE DayStr[today]]
    /\ UNCHANGED << today, nruns, latest, history, log, h, pre, clock, ld >>

\* metals_status.js lines 108-118: the token checks.
StatusRejected ==
    /\ st.pc = "idle"
    /\ \E tokenConfigured \in BOOLEAN :
          st' = [StIdle EXCEPT
                   !.pc = "returned",
                   !.res = IF ~tokenConfigured
                           THEN [code |-> 500,
                                 body |-> [error |-> "METALS_INGEST_TOKEN not configured in environment"]]
                           ELSE [code |-> 401, body |-> [error |-> "unauthorized"]]]
    /\ UNCHANGED << today, nruns, latest, history, log, h, pre, clock, ld >>

\* metals_status.js line 124: pool.connect(), outside the try block.
StatusConnect ==
    /\ st.pc = "connect"
    /\ \/ st' = [st EXCEPT !.pc = "curve"]
       \/ st' = [st EXCEPT !.pc = "returned",
                           !.res = [code |-> 500, body |-> [thrown |-> "connect"]]]
    /\ UNCHANGED << today, nruns, latest, history, log, h, pre, clock, ld >>

\* metals_status.js lines 128-143: one SELECT, one snapshot of the table.
StatusCurve ==
    /\ st.pc = "curve"
    /\ st' = [st EXCEPT !.pc = "log",
                        !.rows = curveResult(st.qDate),
                        !.unseen = { r \in latest : r.xmin # 0 \/ r.xmax # 0 }]
    /\ UNCHANGED << today, nruns, latest, history, log, h, pre, clock, ld >>

\* metals_status.js lines 146-171: the second SELECT and the response.
StatusLog ==
    /\ st.pc = "log"
    /\ st' = [st EXCEPT !.pc = "finally",
                        !.res = [code |-> 200,
                                 body |-> [ok |-> TRUE, as_of_date |-> st.qDate,
                                           rowCount |-> Cardinality(st.rows),
                                           rows |-> st.rows,
                                           lastIngest |-> logResult(st.qDate)]]]
    /\ UNCHANGED << today, nruns, latest, history, log, h, pre, clock, ld >>

\* metals_status.js lines 172-174: a SELECT throws.
StatusQueryFails ==
    /\ st.pc \in {"curve", "log"}
    /\ st' = [StIdle EXCEPT !.pc = "finally", !.qDate = st.qDate,
                            !.res = [code |-> 500,
                                     body |-> [error |-> "unhandled_exception"]]]
    /\ UNCHANGED << today, nruns, latest, history, log, h, pre, clock, ld >>

\* metals_status.js lines 175-177, and the slot is free for the next request.
StatusRelease ==
    /\ st.pc = "finally"
    /\ st' = [st EXCEPT !.pc = "returned"]
    /\ UNCHANGED << today, nruns, latest, history, log, h, pre, clock, ld >>

StatusForget ==
    /\ st.pc = "returned"
    /\ st' = StIdle
    /\ UNCHANGED << today, nruns, latest, history, log, h, pre, clock, ld >>

Status ==
    \/ StatusStart
    \/ StatusRejected
    \/ StatusConnect
    \/ StatusCurve
    \/ StatusLog
    \/ StatusQueryFails
    \/ StatusRelease
    \/ StatusForget

\* Ingest runs one after the other, and status requests at any moment of
\* them.
NextStatus ==
    \/ \E p \in Procs : Start(p, FALSE)
    \/ \E p \in Procs : StepConc(p)
    \/ Status

SpecStatus == Init /\ [][NextStatus]_vars

\* ------------------------------------------------------- the /api/run loader
\* src/api/run.js: the handler connects, loads the prices, then loads the
\* metals curve, statement by statement on a connection of its own with no
\* BEGIN: every statement commits when it is done.
LoaderId == NumProcs + 1

\* row[j] ?? "".
cellOr(row, j) == IF j \in 1..Len(row) THEN row[j] ELSE ""

\* Lines 228-252 of run.js: the values of one data row, or Null when the
\* row is skipped.
loaderRow(header, row) ==
    LET iReal       == indexOf(header, "10 yr real yld")
        asOfRaw     == cellOr(row, indexOf(header, "as of date"))
        metal       == trim(cellOr(row, indexOf(header, "metal")))
        tenorMonths == parseInt(cellOr(row, indexOf(header, "tenor months")))
        price       == parseFloat(cellOr(row, indexOf(header, "price")))
        real10yr    == IF iReal > 0 /\ (iReal > Len(row) \/ row[iReal] # "")
                       THEN parseFloat(cellOr(row, iReal)) ELSE Null
    IN  IF Len(row) = 0 \/ metal = "" \/ tenorMonths = NaN \/ price = NaN
        THEN Null
        ELSE [ as_of_date    |-> asOfRaw,
               metal         |-> metal,
               tenor_months  |-> tenorMonths[1],
               price         |-> price[1],
               real_10yr_yld |-> real10yr ]

METALS_REQUIRED_COLS == { "as of date", "metal", "tenor months", "price" }

LoaderReturns(code, body) ==
    ld' = [ld EXCEPT !.pc = "returned", !.res = [code |-> code, body |-> body]]

\* Lines 286-296: a request comes in; client.connect() and the prices
\* loader, which leaves the metals tables alone, lie before the metals
\* loader.
LoaderStart ==
    /\ ld.pc = "idle"
    /\ nruns < MaxRuns
    /\ nruns' = nruns + 1
    /\ ld' = [LdIdle EXCEPT !.pc = "fetch", !.run = nruns + 1,
                            !.before = CurveHistory]
    /\ UNCHANGED << today, latest, history, log, h, pre, st, clock >>

\* Lines 147-197: no URL, a failed fetch, a sheet with no data rows or
\* without a required column, or the rows to load.
LoaderFetch ==
    /\ ld.pc = "fetch"
    /\ \/ LoaderReturns(200, [ok |-> TRUE, processed |-> 0, skipped |-> 0])
       \/ LoaderReturns(500, [ok |-> FALSE])
       \/ \E sheet \in ConcSheets :
            LET header == [j \in 1..Len(sheet.header) |->
                             toLowerCase(trim(sheet.header[j]))]
            IN  IF Len(sheet.lines) < 1
                THEN LoaderReturns(200, [ok |-> TRUE, processed |-> 0,
                                         skipped |-> 0])
                ELSE IF \E col \in METALS_REQUIRED_COLS : indexOf(header, col) = 0
                THEN LoaderReturns(500, [ok |-> FALSE])
                ELSE ld' = [ld EXCEPT !.pc = "row", !.header = header,
                                      !.rows = sheet.lines, !.i = 1]
    /\ UNCHANGED << today, nruns, latest, history, log, h, pre, st, clock >>

\* Lines 225-298: the loop is over and the handler answers.
LoaderNext(processed, skipped) ==
    IF ld.i < Len(ld.rows)
    THEN [ld EXCEPT !.pc = "row", !.i = @ + 1, !.processed = processed,
                    !.skipped = skipped]
    ELSE [ld EXCEPT !.pc = "returned", !.processed = processed,
                    !.skipped = skipped,
                    !.res = [code |-> 200,
                             body |-> [ok |-> TRUE, processed |-> processed,
                                       skipped |-> skipped]]]

\* Lines 227-250: a row without a metal, a tenor or a price is skipped.
LoaderSkip ==
    /\ ld.pc = "row"
    /\ loaderRow(ld.header, ld.rows[ld.i]) = Null
    /\ ld' = LoaderNext(ld.processed, ld.skipped + 1)
    /\ UNCHANGED << today, nruns, latest, history, log, h, pre, st, clock >>

\* Lines 254-262: the upsert into metals_curve_latest, committed at once.
LoaderUpsert ==
    /\ ld.pc = "row"
    /\ LET r == loaderRow(ld.header, ld.rows[ld.i])
       IN  /\ r # Null
           /\ ~Blocked(Conflicting(latest, LoaderId, r), LoaderId)
           /\ latest' = CommitTx(upsert(latest, LoaderId, r, ld.run), LoaderId)
    /\ ld' = [ld EXCEPT !.pc = "insert"]
    /\ UNCHANGED << today, nruns, history, log, h, pre, st, clock >>

\* Lines 264-272: the plain INSERT into metals_curve_history, committed at
\* once.
LoaderInsert ==
    /\ ld.pc = "insert"
    /\ LET r == loaderRow(ld.header, ld.rows[ld.i])
       IN  history' = history \cup
               { [ as_of_date |-> r.as_of_date, metal |-> r.metal,
                   tenor_months |-> r.tenor_months, price |-> r.price,
                   real_10yr_yld |-> r.real_10yr_yld,
                   inserted_at |-> ld.run, seq |-> ld.i,
                   xmin |-> 0, xmax |-> 0 ] }
    /\ ld' = LoaderNext(ld.processed + 1, ld.skipped)
    /\ UNCHANGED << today, nruns, latest, log, h, pre, st, clock >>

\* Lines 307-312: client.connect(), the prices loader or a query of the
\* metals loader throws; the handler answers 500 and ends the connection.
\* Nothing is undone.
LoaderThrows ==
    /\ ld.pc \in {"fetch", "row", "insert"}
    /\ LoaderReturns(500, [ok |-> FALSE])
    /\ UNCHANGED << today, nruns, latest, history, log, h, pre, st, clock >>

LoaderForget ==
    /\ ld.pc = "returned"
    /\ ld' = LdIdle
    /\ UNCHANGED << today, nruns, latest, history, log, h, pre, st, clock >>

Loader ==
    \/ LoaderStart
    \/ LoaderFetch
    \/ LoaderSkip
    \/ LoaderUpsert
    \/ LoaderInsert
    \/ LoaderThrows
    \/ LoaderForget

\* The /api/metals_run invocations, one after the other, beside the
\* /api/run requests.
NextLoader ==
    \/ \E p \in Procs : Start(p, FALSE)
    \/ \E p \in Procs : StepConc(p)
    \/ Loader

SpecLoader == Init /\ [][NextLoader]_vars

\* -------------------------------------------------------- the parser alone
\* parseMetalsCsv applied to the text of a sheet, outside any request: slot
\* 1 holds the text and then the rows.
InitParse ==
    /\ today = 1
    /\ nruns = 0
    /\ latest = {}
    /\ history = {}
    /\ log = <<>>
    /\ pre = [p \in Procs |-> NoPre]
    /\ st = StIdle
    /\ clock = NoClock
    /\ ld = LdIdle
    /\ \E sheet \in ParseSheets :
          h = [p \in Procs |->
                 IF p = 1 THEN [Idle EXCEPT !.pc = "parse", !.csvText = sheet]
                 ELSE Idle]

Parse ==
    /\ h[1].pc = "parse"
    /\ h' = [h EXCEPT ![1].pc = "parsed",
                      ![1].rows = parseMetalsCsv(h[1].csvText)]
    /\ UNCHANGED << today, nruns, latest, history, log, pre, st, clock, ld >>

SpecParse == InitParse /\ [][Parse]_vars


\* ------------------------------------------------------------------ claims
\* The invocation of slot p has got past the token checks and is over.
Ended(p) == h[p].pc = "returned" /\ h[p].run > 0

\* No statement of the invocation has failed.
NoFault(p) == h[p].failedAt = ""

\* No exception has reached the catch block of the handler: at most the
\* audit insert has failed, inside logIngest.
NoThrow(p) == h[p].failedAt \in {"", "logIngest"}

TablesAsBefore(p) ==
    /\ LatestCurve = pre[p].latest
    /\ CurveHistory = pre[p].history

Scheduled(source) == Len(source) >= 4 /\ SubSeq(source, 1, 4) = <<"c", "r", "o", "n">>

AuditRecord(p, status, reason, rowCount) ==
    [ run_date |-> h[p].todayStr, source |-> h[p].source, status |-> status,
      reason |-> reason, row_count |-> rowCount, logged_at |-> h[p].run ]

C1_Case(p) ==
    /\ Ended(p)
    /\ Scheduled(h[p].source)
    /\ ~h[p].force
    /\ SuccessOn(pre[p].log, h[p].todayStr)

\* C1: a scheduled, non-forced invocation that finds a success record for
\* its run date leaves LatestCurve and CurveHistory as they were; unless the
\* query of the audit log throws, it answers skipped /
\* already_ingested_today; and unless a statement fails, the audit log
\* gains exactly one record, the skipped one.
C1_IdempotentSkip ==
    \A p \in Procs :
        C1_Case(p) =>
            /\ TablesAsBefore(p)
            /\ NoThrow(p) =>
                  h[p].res = [code |-> 200,
                              body |-> [ok |-> TRUE, skipped |-> TRUE,
                                        reason |-> "already_ingested_today"]]
            /\ NoFault(p) =>
                  log = Append(pre[p].log,
                               AuditRecord(p, "skipped",
                                           <<"already_ingested_today">>, 0))

\* A scheduled rerun on a day that has a success record and history rows.
C1_Witness ==
    \E p \in Procs :
        /\ C1_Case(p)
        /\ NoFault(p)
        /\ h[p].logArgs.status = "skipped"
        /\ pre[p].history # {}

HistoryBatches(d) ==
    { r.inserted_at : r \in { x \in CurveHistory : x.as_of_date = d } }

\* C2: with invocations one after the other, CurveHistory never holds the
\* rows of more than one run for a date.
C2_OneBatchPerDate ==
    \A d \in { r.as_of_date : r \in CurveHistory } :
        Cardinality(HistoryBatches(d)) <= 1

\* A non-forced rerun for a date that has history rows has ended.
C2_Witness ==
    \E p \in Procs :
        /\ Ended(p)
        /\ ~h[p].force
        /\ NoFault(p)
        /\ h[p].rows # <<>>
        /\ h[p].sheetDate = h[p].todayStr
        /\ { r \in pre[p].history : r.as_of_date = h[p].sheetDate } # {}
        /\ Cardinality(HistoryBatches(h[p].sheetDate)) = 1

\* The history rows the run of slot p inserts.
HistoryRowsOf(p) ==
    { [ as_of_date |-> h[p].rows[j].as_of_date, metal |-> h[p].rows[j].metal,
        tenor_months |-> h[p].rows[j].tenor_months,
        price |-> h[p].rows[j].price,
        real_10yr_yld |-> h[p].rows[j].real_10yr_yld,
        inserted_at |-> h[p].run, seq |-> j ] : j \in 1..Len(h[p].rows) }

C3_Case(p) ==
    /\ Ended(p)
    /\ h[p].force
    /\ NoThrow(p)
    /\ h[p].rows # <<>>

\* C3: a forced invocation that has parsed rows and in which no exception
\* is thrown succeeds, and afterwards the CurveHistory rows of the run date
\* are exactly the rows of this run.
C3_ForceBypass ==
    \A p \in Procs :
        C3_Case(p) =>
            /\ h[p].res = [code |-> 200,
                           body |-> [ok |-> TRUE, sheetDate |-> h[p].todayStr,
                                     rowCount |-> Len(h[p].rows),
                                     trigger_source |-> h[p].source]]
            /\ { r \in CurveHistory : r.as_of_date = h[p].todayStr }
                  = HistoryRowsOf(p)

\* A manual forced run for a date whose history held another run's rows.
C3_Witness ==
    \E p \in Procs :
        /\ C3_Case(p)
        /\ ~Scheduled(h[p].source)
        /\ { r \in pre[p].history : r.as_of_date = h[p].todayStr } # {}

TxPcs == { "begin", "deleteHistory", "deleteLatest", "upsertLatest",
           "insertHistory", "commit" }

\* C4: from the moment a statement of the write transaction fails, and
\* after the invocation has returned, LatestCurve and CurveHistory are what
\* they were before the run, and the response is unhandled_exception.
C4_Atomicity ==
    \A p \in Procs :
        h[p].failedAt \in TxPcs =>
            /\ TablesAsBefore(p)
            /\ Ended(p) => h[p].res = [code |-> 500,
                                       body |-> [error |-> "unhandled_exception"]]

\* The insert of a history row failed after the upserts, over tables that
\* held rows, and the run has returned.
C4_Witness ==
    \E p \in Procs :
        /\ Ended(p)
        /\ h[p].failedAt = "insertHistory"
        /\ pre[p].latest # {}
        /\ pre[p].history # {}


\* The audit records the run of slot p has inserted.
OwnRecords(p) == { j \in 1..Len(log) : log[j].logged_at = h[p].run }

\* C5: every invocation that got past the token checks and entered the try
\* block has, when it is over, exactly one audit record, with the status of
\* its outcome (success for a 200 that is not a skip, skipped for a skip or
\* a conflict, error otherwise).
C5_ExactlyOneRecord ==
    \A p \in Procs :
        (Ended(p) /\ h[p].failedAt # "connect") =>
            /\ Cardinality(OwnRecords(p)) = 1
            /\ \A j \in OwnRecords(p) :
                  log[j].status =
                     IF h[p].res.code = 409 THEN "skipped"
                     ELSE IF h[p].res.code # 200 THEN "error"
                     ELSE IF h[p].res.body = [ok |-> TRUE, skipped |-> TRUE,
                                              reason |-> "already_ingested_today"]
                     THEN "skipped" ELSE "success"

\* C6: every invocation that has answered its caller has an audit record.
C6_AuditNeverLost ==
    \A p \in Procs :
        (Ended(p) /\ h[p].failedAt # "connect") => OwnRecords(p) # {}

\* C7: in no state does CurveHistory hold the committed rows of a run
\* without a success record of that run in the audit log.
C7_UnitOfWork ==
    \A r \in CurveHistory :
        \E j \in 1..Len(log) :
            log[j].logged_at = r.inserted_at /\ log[j].status = "success"

SameKey(x, y) == x.metal = y.metal /\ x.tenor_months = y.tenor_months

\* The as-of dates of the most recent run whose rows CurveHistory holds,
\* among the rows H.
LastDates(H) ==
    { r.as_of_date : r \in { x \in H : \A y \in H : y.inserted_at <= x.inserted_at } }

\* C8 as claimed: one LatestCurve row per key, dated as the most recent
\* committed batch, whether or not that batch held the key.
C8_Original ==
    \A r \in LatestCurve :
        /\ Cardinality({ x \in LatestCurve : SameKey(x, r) }) = 1
        /\ LastDates(CurveHistory) = {r.as_of_date}

\* C8, amended: one LatestCurve row per key, dated as the most recent
\* committed batch that held the key.
C8_LatestUniqueness ==
    \A r \in LatestCurve :
        /\ Cardinality({ x \in LatestCurve : SameKey(x, r) }) = 1
        /\ LastDates({ x \in CurveHistory : SameKey(x, r) }) = {r.as_of_date}

\* Two committed batches of different dates, and a key of LatestCurve that
\* only the older one held next to a key the newer one has overwritten.
C8_Witness ==
    \E r, q \in LatestCurve :
        /\ ~SameKey(r, q)
        /\ r.as_of_date # q.as_of_date
        /\ \E x \in CurveHistory : SameKey(x, q) /\ x.as_of_date # q.as_of_date

DatesOf(p) == uniqueDates(h[p].rows)

C9_Case(p) ==
    /\ Ended(p)
    /\ ~h[p].force
    /\ h[p].rows # <<>>
    /\ \E d \in DatesOf(p) : DatesOf(p) = {d} /\ d # h[p].todayStr

\* C9: a non-forced invocation whose parsed rows all carry one as-of date
\* other than the run date leaves LatestCurve and CurveHistory as they
\* were and answers 400 sheet_date_mismatch; unless the audit insert fails,
\* the audit log gains exactly one record, the error one.
C9_DateMismatch ==
    \A p \in Procs :
        C9_Case(p) =>
            \E d \in DatesOf(p) :
                /\ TablesAsBefore(p)
                /\ h[p].res = [code |-> 400,
                               body |-> [error |-> "sheet_date_mismatch",
                                         sheetDate |-> d,
                                         expectedDate |-> h[p].todayStr]]
                /\ NoFault(p) =>
                      log = Append(pre[p].log,
                                   AuditRecord(p, "error",
                                               <<"sheet_date_mismatch", d, h[p].todayStr>>,
                                               Len(h[p].rows)))

\* Yesterday's sheet is submitted again on the next day.
C9_Witness ==
    \E p \in Procs :
        /\ C9_Case(p)
        /\ NoFault(p)
        /\ DatesOf(p) = {DayStr[1]}
        /\ h[p].todayStr = DayStr[2]
        /\ pre[p].history # {}

C10_Case(p) ==
    /\ Ended(p)
    /\ ~h[p].force
    /\ Cardinality(DatesOf(p)) > 1

\* C10: a non-forced invocation whose parsed rows carry more than one
\* as-of date leaves LatestCurve and CurveHistory as they were and answers
\* 400 multiple_as_of_dates_in_sheet; unless the audit insert fails, the
\* audit log gains exactly one record, the error one.
C10_AmbiguousDate ==
    \A p \in Procs :
        C10_Case(p) =>
            /\ TablesAsBefore(p)
            /\ h[p].res = [code |-> 400,
                           body |-> [error |-> "multiple_as_of_dates_in_sheet",
                                     uniqueDates |-> DatesOf(p)]]
            /\ NoFault(p) =>
                  log = Append(pre[p].log,
                               AuditRecord(p, "error",
                                           <<"multiple_as_of_dates_in_sheet">>,
                                           Len(h[p].rows)))

\* A sheet with a row of today and a row of another day.
C10_Witness ==
    \E p \in Procs :
        /\ C10_Case(p)
        /\ NoFault(p)
        /\ h[p].todayStr \in DatesOf(p)
        /\ h[p].logArgs.status = "error"


\* The rows the parser made of the sheet the run of slot p fetched.
Parsed(p) == parseMetalsCsv(h[p].csvText)

C11_Case(p) ==
    /\ Ended(p)
    /\ h[p].force
    /\ NoThrow(p)
    /\ h[p].rows # <<>>

\* C11: a forced invocation that has parsed rows and in which no exception
\* is thrown succeeds whatever as-of dates the sheet carried, and writes
\* every parsed row, in CurveHistory and in LatestCurve, with the run date
\* as its as-of date.
C11_ForceDateOverride ==
    \A p \in Procs :
        C11_Case(p) =>
            /\ h[p].res.code = 200
            /\ h[p].res.body.sheetDate = h[p].todayStr
            /\ h[p].res.body.rowCount = Len(Parsed(p))
            /\ \A j \in 1..Len(Parsed(p)) :
                  /\ \E r \in CurveHistory :
                        /\ r.inserted_at = h[p].run
                        /\ r.seq = j
                        /\ r.metal = Parsed(p)[j].metal
                        /\ r.tenor_months = Parsed(p)[j].tenor_months
                        /\ r.price = Parsed(p)[j].price
                        /\ r.as_of_date = h[p].todayStr
                  /\ \E r \in LatestCurve :
                        /\ SameKey(r, Parsed(p)[j])
                        /\ r.updated_at = h[p].run
            /\ \A r \in CurveHistory :
                  r.inserted_at = h[p].run => r.as_of_date = h[p].todayStr
            /\ \A r \in LatestCurve :
                  r.updated_at = h[p].run => r.as_of_date = h[p].todayStr

\* A forced run over a sheet of two rows, one of them at least dated
\* another day than the run date.
C11_Witness ==
    \E p \in Procs :
        /\ C11_Case(p)
        /\ \E d \in uniqueDates(Parsed(p)) : d # h[p].todayStr
        /\ Len(Parsed(p)) = 2


\* The CurveHistory rows of the date d before the run of slot p.
HistoryBefore(p, d) == { r \in pre[p].history : r.as_of_date = d }

C12_Case(p) ==
    /\ Ended(p)
    /\ ~h[p].force
    /\ NoThrow(p)
    /\ h[p].rows # <<>>
    /\ uniqueDates(Parsed(p)) = {h[p].todayStr}
    /\ HistoryBefore(p, h[p].todayStr) # {}

\* C12: a non-forced invocation whose sheet is dated the run date, run when
\* CurveHistory holds rows of that date, leaves LatestCurve and
\* CurveHistory as they were and answers 409 with status "exists" and the
\* existing rows, not with an error; unless the audit insert fails, the
\* audit log gains exactly one record, skipped/history_exists_for_date.
C12_HistoryConflict ==
    \A p \in Procs :
        C12_Case(p) =>
            LET existing == HistoryBefore(p, h[p].todayStr)
            IN  /\ TablesAsBefore(p)
                /\ h[p].res = [code |-> 409,
                               body |-> [status |-> "exists",
                                         as_of_date |-> h[p].todayStr,
                                         existing_row_count |-> Cardinality(existing),
                                         existing_rows |-> existing]]
                /\ "error" \notin DOMAIN h[p].res.body
                /\ NoFault(p) =>
                      log = Append(pre[p].log,
                                   AuditRecord(p, "skipped",
                                               <<"history_exists_for_date">>,
                                               Cardinality(existing)))

\* A manual non-forced rerun on a day whose batch is in CurveHistory, with
\* its audit record written.
C12_Witness ==
    \E p \in Procs :
        /\ C12_Case(p)
        /\ NoFault(p)
        /\ ~Scheduled(h[p].source)
        /\ Len(log) = Len(pre[p].log) + 1

\* C13: an invocation whose source does not start with "cron" leaves the
\* duplicate guard for the fetch of the sheet, unless the SELECT of the
\* guard fails, and never ends as already_ingested_today.
C13_ManualNeverSkipped ==
    [][\A p \in Procs :
          (h[p].pc = "checkLog" /\ ~Scheduled(h[p].source) /\ h'[p] # h[p]) =>
              /\ h'[p].pc \in {"fetch", "catch"}
              /\ h'[p].pc = "catch" => h'[p].failedAt = "checkLog"
              /\ h'[p].logArgs.reason # <<"already_ingested_today">>]_vars

\* A manual non-forced invocation is past the guard on a day that has a
\* success record.
C13_Witness ==
    \E p \in Procs :
        /\ h[p].pc = "fetch"
        /\ ~Scheduled(h[p].source)
        /\ ~h[p].force
        /\ SuccessOn(log, h[p].todayStr)


\* The terminal outcome of the invocation of slot p is success: the
\* response of lines 427-432.
Succeeded(p) ==
    /\ h[p].res.code = 200
    /\ "rowCount" \in DOMAIN h[p].res.body

\* C14: an invocation that is over with another outcome than success
\* (skip, conflict, validation error, configuration error, fetch failure,
\* unhandled exception) has left LatestCurve and CurveHistory as they were.
C14_FrameOfTables ==
    \A p \in Procs :
        (Ended(p) /\ ~Succeeded(p)) => TablesAsBefore(p)

\* A run that failed after its forced purge and its upserts, over tables
\* that held rows, has returned.
C14_Witness ==
    \E p \in Procs :
        /\ Ended(p)
        /\ ~Succeeded(p)
        /\ h[p].force
        /\ h[p].failedAt \in {"insertHistory", "commit"}
        /\ pre[p].latest # {}
        /\ pre[p].history # {}


\* No invocation is in progress.
AllOver == \A p \in Procs : h[p].pc \in {"idle", "returned"}

\* C15: with overlapping invocations, once all of them are over
\* CurveHistory holds the rows of at most one run for each date.
C15_OneBatchUnderOverlap ==
    AllOver =>
        \A d \in { r.as_of_date : r \in CurveHistory } :
            Cardinality(HistoryBatches(d)) <= 1

\* The commit of slot p has just been applied.
Commits(p) == h[p].pc = "commit" /\ h'[p].pc = "logIngest"

\* C16: with overlapping invocations, every committed state of LatestCurve
\* holds at most one row for a (metal, tenor_months) key, and right after
\* the commit of a run that row is, for each key of the run, the one the
\* run wrote.
C16_OneRowPerKey ==
    [][/\ \A x, y \in LatestCurve' : SameKey(x, y) => x = y
       /\ \A p \in Procs :
             Commits(p) =>
                 \A j \in 1..Len(h[p].rows) :
                     \E r \in LatestCurve' :
                         /\ SameKey(r, h[p].rows[j])
                         /\ r.updated_at = h[p].run]_vars

\* Two invocations that started over an empty LatestCurve have both
\* committed a row of the same key.
C16_Witness ==
    \E p, q \in Procs :
        /\ p # q
        /\ Ended(p) /\ Succeeded(p) /\ pre[p].latest = {}
        /\ Ended(q) /\ Succeeded(q) /\ pre[q].latest = {}
        /\ h[p].run < h[q].run
        /\ SameKey(h[p].rows[1], h[q].rows[1])
        /\ \E r \in LatestCurve : SameKey(r, h[p].rows[1])


\* The status rows of the date qDate in a LatestCurve L.
StatusRows(L, qDate) ==
    { [f \in StatusColumns |-> r[f]] : r \in { x \in L : x.as_of_date = qDate } }

\* LatestCurve after the whole transaction of the run of slot p, applied
\* to the LatestCurve L: the rows of the sheet date and of the keys of the
\* batch go, and each key of the batch gets the last row the batch has
\* for it.
Replaced(L, p) ==
    LET rows == h[p].rows
        last == { j \in 1..Len(rows) :
                    \A k \in (j + 1)..Len(rows) : ~SameKey(rows[k], rows[j]) }
    IN  { r \in L : /\ r.as_of_date # h[p].sheetDate
                    /\ \A j \in 1..Len(rows) : ~SameKey(r, rows[j]) }
        \cup { [ as_of_date |-> rows[j].as_of_date, metal |-> rows[j].metal,
                 tenor_months |-> rows[j].tenor_months, price |-> rows[j].price,
                 real_10yr_yld |-> rows[j].real_10yr_yld,
                 updated_at |-> h[p].run ] : j \in last }

\* C17: the rows a status request reads while an ingest run is between
\* its BEGIN and the end of its transaction are the LatestCurve rows of
\* the date as they were before the run; the rows it reads once the run
\* has committed are those of the whole replacement.
C17_NoHalfReplacedRead ==
    [][(st.pc = "curve" /\ st'.pc = "log") =>
          \A p \in Procs :
              /\ h[p].pc \in TxPcs \cup {"catch"} =>
                    st'.rows = StatusRows(pre[p].latest, st.qDate)
              /\ (h[p].pc \in {"logIngest", "finally", "returned"}
                    /\ h[p].run > 0 /\ Succeeded(p)) =>
                    st'.rows = StatusRows(Replaced(pre[p].latest, p), st.qDate)]_vars

\* A status request has read the two rows of the date while a forced run
\* had deleted them and upserted the first of its two rows.
C17_Witness ==
    /\ st.pc = "log"
    /\ Cardinality(st.rows) = 2
    /\ Cardinality({ r \in st.unseen : r.xmax # 0 /\ r.as_of_date = st.qDate }) = 2
    /\ Cardinality({ r \in st.unseen : r.xmin # 0 }) = 1


\* The header of the sheet has every required column.
SchemaOk(sheet) ==
    headerOk([j \in 1..Len(sheet.header) |-> cleanField(sheet.header[j])])

\* The invocation of slot p has fetched a sheet whose header lacks a
\* required column, and is over without an exception.
C18_Case(p) ==
    /\ Ended(p)
    /\ NoThrow(p)
    /\ h[p].csvText # <<>>
    /\ ~SchemaOk(h[p].csvText)

\* The invocation of slot q has fetched a sheet with all the columns and
\* no parseable row, and is over without an exception.
ZeroRows(q) ==
    /\ Ended(q)
    /\ NoThrow(q)
    /\ h[q].csvText # <<>>
    /\ SchemaOk(h[q].csvText)
    /\ Parsed(q) = <<>>

\* C18: an invocation whose sheet lacks a required column parses no row,
\* writes nothing to the data tables and ends with an error whose response
\* and audit reason differ from those of an invocation whose sheet has the
\* columns and no parseable row.
C18_SchemaMismatchDistinct ==
    \A p \in Procs :
        C18_Case(p) =>
            /\ h[p].rows = <<>>
            /\ \A r \in latest : r.updated_at # h[p].run
            /\ \A r \in history : r.inserted_at # h[p].run
            /\ h[p].logArgs.status = "error"
            /\ \A q \in Procs :
                  ZeroRows(q) =>
                      /\ h[p].res # h[q].res
                      /\ h[p].logArgs.reason # h[q].logArgs.reason


\* The cell of line j of the sheet under the column label.
Cell(sheet, j, label) ==
    Col(sheet.lines[j],
        indexOf([c \in 1..Len(sheet.header) |-> cleanField(sheet.header[c])], label))

\* The data lines of the sheet whose tenor is not a number.
BadTenors(sheet) ==
    { j \in 1..Len(sheet.lines) :
        ~isFinite(toNumber(Cell(sheet, j, "Tenor Months"))) }

\* The other data lines, in the order of the sheet.
GoodTenors(sheet) ==
    SelectSeq([j \in 1..Len(sheet.lines) |-> j],
              LAMBDA j : j \notin BadTenors(sheet))

\* The fields of the success response of lines 427-432.
SuccessFields == {"ok", "sheetDate", "rowCount", "trigger_source"}

C19_Case(p) ==
    /\ Ended(p)
    /\ NoThrow(p)
    /\ Succeeded(p)
    /\ BadTenors(h[p].csvText) # {}

\* The rows of the run are those of the lines with a numeric tenor, in the
\* order of the sheet.
C19_RowsKept(p) ==
    LET sheet == h[p].csvText
        good  == GoodTenors(sheet)
    IN  /\ Len(Parsed(p)) = Len(sheet.lines) - Cardinality(BadTenors(sheet))
        /\ h[p].res.body.rowCount = Len(good)
        /\ \A i \in 1..Len(good) :
              Parsed(p)[i].tenor_months
                 = toNumber(Cell(sheet, good[i], "Tenor Months"))[1]

\* C19: a run that ingests a sheet of n data lines, k of them with a
\* non-numeric tenor, ingests the n-k other lines in the order of the
\* sheet, and its response carries, beside the row count, the count k of
\* the dropped lines.
C19_DroppedCount ==
    \A p \in Procs :
        C19_Case(p) =>
            /\ C19_RowsKept(p)
            /\ \E f \in (DOMAIN h[p].res.body) \ SuccessFields :
                  h[p].res.body[f] = Cardinality(BadTenors(h[p].csvText))


\* The cell holds the text of a finite number: the empty cell, which
\* Number() reads as 0, holds none.
HoldsNumber(cell) ==
    /\ cell \notin {Undefined, ""}
    /\ isFinite(toNumber(cell))

ParsesTo(cell, n) == HoldsNumber(cell) /\ toNumber(cell) = Num(n)

\* The data lines of the sheet with a tenor and a price to parse.
Parseable(sheet) ==
    { j \in 1..Len(sheet.lines) :
        /\ HoldsNumber(Cell(sheet, j, "Tenor Months"))
        /\ HoldsNumber(Cell(sheet, j, "Price")) }

\* C20: the parser emits one row for each line whose tenor and price cells
\* hold numbers and none for the other lines, and the tenor and the price
\* of every emitted row are those numbers.
C20_NoDefaultedRow ==
    (h[1].pc = "parsed" /\ SchemaOk(h[1].csvText)) =>
        LET sheet == h[1].csvText
        IN  /\ Len(h[1].rows) = Cardinality(Parseable(sheet))
            /\ \A i \in 1..Len(h[1].rows) :
                  \E j \in Parseable(sheet) :
                      /\ ParsesTo(Cell(sheet, j, "Tenor Months"),
                                  h[1].rows[i].tenor_months)
                      /\ ParsesTo(Cell(sheet, j, "Price"), h[1].rows[i].price)


\* C21: the rows of a run that has reached its write transaction have
\* pairwise different (metal, tenor_months) keys, and CurveHistory holds at
\* most one row of a run for a date and a key.
C21_UniquePairsPerBatch ==
    /\ \A p \in Procs :
          h[p].pc \in TxPcs =>
              \A i, j \in 1..Len(h[p].rows) :
                  SameKey(h[p].rows[i], h[p].rows[j]) => i = j
    /\ \A x, y \in CurveHistory :
          (/\ x.inserted_at = y.inserted_at
           /\ x.as_of_date = y.as_of_date
           /\ SameKey(x, y)) => x = y


\* C22: every row the parser emits has a tenor_months of 0 or more.
C22_TenorNotNegative ==
    h[1].pc = "parsed" =>
        \A i \in 1..Len(h[1].rows) : h[1].rows[i].tenor_months >= 0


\* A label in lower case and without its blanks.
Fold(label) ==
    CASE label \in {"Metal", " Metal ", "metal"}          -> "metal"
      [] label \in {"Tenor Months", "Tenor  Months"}      -> "tenormonths"
      [] OTHER                                            -> label

\* The header differs from the canonical one in letter case and blanks
\* at most.
SameHeader(header) ==
    /\ Len(header) = Len(CanonicalHeader)
    /\ \A j \in 1..Len(header) : Fold(header[j]) = Fold(CanonicalHeader[j])

\* C23: under a header that differs from the canonical one in letter case
\* and blanks at most, the parser emits the rows it emits for the same
\* lines under the canonical header.
C23_HeaderInsensitive ==
    (h[1].pc = "parsed" /\ SameHeader(h[1].csvText.header)) =>
        h[1].rows = parseMetalsCsv([header |-> CanonicalHeader,
                                    lines  |-> h[1].csvText.lines])


\* C24: every step leaves the records of the audit log as they are and in
\* their order, and at most adds records after them.
C24_AuditAppendOnly ==
    [][/\ Len(log') >= Len(log)
       /\ SubSeq(log', 1, Len(log)) = log]_vars

\* The second run of a day has added its skipped record after the success
\* record of the first.
C24_Witness ==
    /\ Len(log) = 2
    /\ log[1].status = "success"
    /\ log[2].status = "skipped"
    /\ log[1].logged_at < log[2].logged_at


C26_Original ==
    \A p \in Procs :
        h[p].logArgs.reason = <<"already_ingested_today">> =>
            /\ h[p].csvText # <<>>
            /\ h[p].rows # <<>>

\* The audit reason of the first check that stops the run of slot p, in the
\* order duplicate guard, fetch, parser, date check, history conflict
\* check; NoReason when none does.
FirstStop(p) ==
    IF Scheduled(h[p].source) /\ ~h[p].force /\ SuccessOn(pre[p].log, h[p].todayStr)
    THEN <<"already_ingested_today">>
    ELSE IF h[p].csvText = <<>> THEN h[p].logArgs.reason
    ELSE IF Parsed(p) = <<>> THEN <<"no_rows_in_sheet_or_bad_headers">>
    ELSE IF h[p].force THEN NoReason
    ELSE LET dates == uniqueDates(Parsed(p))
         IN  IF Cardinality(dates) > 1 THEN <<"multiple_as_of_dates_in_sheet">>
             ELSE IF dates # {h[p].todayStr}
             THEN <<"sheet_date_mismatch", CHOOSE d \in dates : TRUE, h[p].todayStr>>
             ELSE IF HistoryBefore(p, h[p].todayStr) # {}
             THEN <<"history_exists_for_date">>
             ELSE NoReason

\* C26, amended: an invocation in which no exception is thrown reports the
\* outcome of the first check that stops it, in the order duplicate guard,
\* parser, date check, history conflict check, and succeeds when none
\* does; stopped by the duplicate guard, it has not fetched the sheet, and
\* without the sheet it is stopped by the missing URL or the failed fetch.
C26_OrderOfChecks ==
    \A p \in Procs :
        (Ended(p) /\ NoThrow(p)) =>
            /\ h[p].logArgs.reason = FirstStop(p)
            /\ FirstStop(p) = <<"already_ingested_today">> => h[p].csvText = <<>>
            /\ FirstStop(p) = NoReason <=> Succeeded(p)
            /\ (h[p].csvText = <<>> /\ ~Succeeded(p)) =>
                  h[p].logArgs.reason \in { <<"already_ingested_today">>,
                                            <<"METALS_CSV_URL_not_configured">>,
                                            <<"fetch_failed">> }

\* A non-forced run over a sheet dated another day, for which CurveHistory
\* holds rows, has reported the date mismatch.
C26_Witness ==
    \E p \in Procs :
        /\ Ended(p)
        /\ NoThrow(p)
        /\ ~h[p].force
        /\ h[p].csvText # <<>>
        /\ \E d \in uniqueDates(Parsed(p)) :
              /\ uniqueDates(Parsed(p)) = {d}
              /\ d # h[p].todayStr
              /\ HistoryBefore(p, d) # {}
        /\ h[p].logArgs.reason[1] = "sheet_date_mismatch"


\* C27: from the moment a statement of the write transaction of a forced
\* run fails, and after the run has returned, CurveHistory is what it was
\* before the run: the rows of the run date that the run had deleted are
\* there as they were.
C27_ForcedFailureKeepsHistory ==
    \A p \in Procs :
        (h[p].force /\ h[p].failedAt \in TxPcs) =>
            /\ CurveHistory = pre[p].history
            /\ { r \in CurveHistory : r.as_of_date = h[p].todayStr }
                  = HistoryBefore(p, h[p].todayStr)

\* A forced run that had deleted the history rows of its date has failed
\* at a later statement of its transaction and has returned.
C27_Witness ==
    \E p \in Procs :
        /\ Ended(p)
        /\ h[p].force
        /\ h[p].failedAt \in {"deleteLatest", "upsertLatest", "insertHistory", "commit"}
        /\ HistoryBefore(p, h[p].todayStr) # {}


KeyOf(r) == << r.metal, r.tenor_months >>

\* C28: after a successful run, the LatestCurve rows dated the sheet date
\* of the run are one row for each key of its batch and no other row.
C28_LatestOfDateIsBatch ==
    \A p \in Procs :
        (Ended(p) /\ Succeeded(p)) =>
            LET ofDate == { r \in LatestCurve : r.as_of_date = h[p].sheetDate }
            IN  /\ { KeyOf(r) : r \in ofDate }
                      = { KeyOf(h[p].rows[j]) : j \in 1..Len(h[p].rows) }
                /\ \A x, y \in ofDate : SameKey(x, y) => x = y

\* A successful run for a date of which LatestCurve held a key that the
\* batch of the run does not hold.
C28_Witness ==
    \E p \in Procs :
        /\ Ended(p)
        /\ Succeeded(p)
        /\ \E r \in pre[p].latest :
              /\ r.as_of_date = h[p].sheetDate
              /\ \A j \in 1..Len(h[p].rows) : ~SameKey(r, h[p].rows[j])


\* The CurveHistory row y is not newer than x: of an earlier run, or
\* earlier in the batch of the same run.
NotNewer(y, x) ==
    \/ y.inserted_at < x.inserted_at
    \/ y.inserted_at = x.inserted_at /\ y.seq <= x.seq

\* C29: with invocations one after the other, every LatestCurve row has
\* the as-of date, the price and the real yield of the newest CurveHistory
\* row of its key, all three from that one row, and was written by the run
\* that inserted it.
C29_LatestIsLastBatch ==
    \A r \in LatestCurve :
        \E x \in CurveHistory :
            /\ SameKey(x, r)
            /\ \A y \in CurveHistory : SameKey(y, r) => NotNewer(y, x)
            /\ r.updated_at = x.inserted_at
            /\ r.as_of_date = x.as_of_date
            /\ r.price = x.price
            /\ r.real_10yr_yld = x.real_10yr_yld

\* A LatestCurve row whose key an earlier batch of another date held at
\* another price and another real yield.
C29_Witness ==
    \E r \in LatestCurve :
        \E y \in CurveHistory :
            /\ SameKey(y, r)
            /\ y.inserted_at < r.updated_at
            /\ y.as_of_date # r.as_of_date
            /\ y.price # r.price
            /\ y.real_10yr_yld # r.real_10yr_yld


\* The rows of a table without the timestamp column ts.
Without(T, ts) == { [f \in (DOMAIN r) \ {ts} |-> r[f]] : r \in T }

\* The runs of slots p and q are two successful forced runs of the same
\* sheet on the same day, q the next run after p and started after the
\* commit of p, and no other run is there.
C30_Case(p, q) ==
    /\ Ended(p) /\ Succeeded(p) /\ h[p].force
    /\ Ended(q) /\ Succeeded(q) /\ h[q].force
    /\ h[q].run = h[p].run + 1
    /\ h[q].csvText = h[p].csvText
    /\ h[q].todayStr = h[p].todayStr
    /\ \E r \in pre[q].history : r.inserted_at = h[p].run
    /\ \A s \in Procs \ {p, q} : h[s].pc = "idle"

\* C30: after the second of two consecutive successful forced runs of the
\* same sheet on the same day, LatestCurve and CurveHistory hold, updated_at
\* and inserted_at apart, the rows they held after the first.
C30_ForcedIdempotent ==
    \A p, q \in Procs :
        C30_Case(p, q) =>
            /\ Without(LatestCurve, "updated_at") = Without(pre[q].latest, "updated_at")
            /\ Cardinality(LatestCurve) = Cardinality(pre[q].latest)
            /\ Without(CurveHistory, "inserted_at") = Without(pre[q].history, "inserted_at")
            /\ Cardinality(CurveHistory) = Cardinality(pre[q].history)

\* Two such runs of the sheet of two rows.
C30_Witness ==
    \E p, q \in Procs :
        /\ C30_Case(p, q)
        /\ Len(h[q].rows) = 2
        /\ Cardinality(CurveHistory) = 2

\* The batch of a run of day 1 that came before the runs of the model: one
\* row of today's sheet.
SeedRows ==
    parseMetalsCsv([header |-> CanonicalHeader,
                    lines  |-> << Line(DayStr[1], "Gold", "12",
                                       PriceOn[1][1], PriceOn[1][2]) >>])

\* The state a scheduled run of day 1, numbered 0, has left behind: its
\* batch in both tables and its success record.
InitSeeded ==
    /\ today = 1
    /\ nruns = 0
    /\ latest = upsert({}, 0, SeedRows[1], 0)
    /\ history = { [ as_of_date |-> SeedRows[1].as_of_date,
                     metal |-> SeedRows[1].metal,
                     tenor_months |-> SeedRows[1].tenor_months,
                     price |-> SeedRows[1].price,
                     real_10yr_yld |-> SeedRows[1].real_10yr_yld,
                     inserted_at |-> 0, seq |-> 1, xmin |-> 0, xmax |-> 0 ] }
    /\ log = << [ run_date |-> DayStr[1], source |-> CHOOSE s \in Sources : TRUE,
                  status |-> "success",
                  reason |-> NoReason, row_count |-> 1, logged_at |-> 0 ] >>
    /\ h = [p \in Procs |-> Idle]
    /\ pre = [p \in Procs |-> NoPre]
    /\ st = StIdle
    /\ clock = NoClock
    /\ ld = LdIdle

\* Invocations one after the other, over tables that hold an earlier batch.
SpecSeeded == InitSeeded /\ [][Next]_vars

\* Every await of an invocation settles: the query, the fetch or the
\* release either resolves or rejects, and the handler takes its next step.
SpecFair == Spec /\ \A p \in Procs : WF_vars(Step(p))

\* The versions of a table that transaction p wrote or marked.
WrittenBy(T, p) == { r \in T : r.xmin = p \/ r.xmax = p }

UnhandledException == [code |-> 500, body |-> [error |-> "unhandled_exception"]]

\* One step of the model, seen from an invocation whose write transaction
\* has had a statement fail.
C31_AfterFailure(p) ==
    h[p].failedAt \in TxPcs =>
        /\ WrittenBy(latest', p) \subseteq WrittenBy(latest, p)
        /\ WrittenBy(history', p) \subseteq WrittenBy(history, p)
        /\ LatestCurve' = LatestCurve
        /\ CurveHistory' = CurveHistory
        /\ h[p].pc \in {"catch", "logIngest", "finally", "returned"}
        /\ h[p].pc = "catch" /\ h'[p] # h[p] =>
              /\ h'[p].pc = "logIngest"
              /\ h'[p].logArgs = [status |-> "error",
                                  reason |-> <<"unhandled_exception">>,
                                  rowCount |-> 0]
              /\ h'[p].res = UnhandledException
              /\ WrittenBy(latest', p) = {}
              /\ WrittenBy(history', p) = {}
        /\ h[p].pc = "logIngest" /\ h'[p] # h[p] =>
              /\ h'[p].pc = "finally"
              /\ h'[p].res = UnhandledException
              /\ \/ log' = log
                 \/ log' = Append(log, AuditRecord(p, "error",
                                                   <<"unhandled_exception">>, 0))
        /\ h[p].pc = "finally" /\ h'[p] # h[p] =>
              /\ h'[p].pc = "returned"
              /\ h'[p].res = UnhandledException
        /\ h[p].pc # "logIngest" => log' = log

Skipped(p) == "skipped" \in DOMAIN h[p].res.body
Conflict(p) == h[p].res.code = 409
Errored(p) == "error" \in DOMAIN h[p].res.body

\* The number of outcomes among skipped, error, conflict and success that
\* the response of p is.
Outcomes(p) ==
    Cardinality({ o \in {"skipped", "error", "conflict", "success"} :
                    \/ o = "skipped" /\ Skipped(p)
                    \/ o = "error" /\ Errored(p)
                    \/ o = "conflict" /\ Conflict(p)
                    \/ o = "success" /\ Succeeded(p) })

\* C31: once a statement of the write transaction has failed, the
\* invocation writes no further version to either table, rolls back, tries
\* one audit insert (error / unhandled_exception), answers 500
\* unhandled_exception and returns, with no second attempt; every invocation
\* that gets its connection returns, and its response is exactly one of
\* skipped, error, conflict and success.
C31_NoRetryAndTermination ==
    /\ [][\A p \in Procs : C31_AfterFailure(p)]_vars
    /\ [](\A p \in Procs :
            h[p].pc = "returned" /\ h[p].failedAt # "connect" => Outcomes(p) = 1)
    /\ \A p \in Procs :
          (h[p].pc \notin {"idle", "returned"}) ~> (h[p].pc = "returned")

\* A run whose COMMIT failed, over tables that held rows, has returned with
\* its error record written.
C31_Witness ==
    \E p \in Procs :
        /\ Ended(p)
        /\ h[p].failedAt = "commit"
        /\ pre[p].history # {}
        /\ Len(log) = Len(pre[p].log) + 1
        /\ log[Len(log)] = AuditRecord(p, "error", <<"unhandled_exception">>, 0)

\* The positions of the handler between pool.connect() and client.release().
HoldingPcs ==
    { "checkLog", "fetch", "selectHistory", "catch", "logIngest", "finally" }
        \cup TxPcs

\* The connections of the pool that are checked out.
CheckedOut == { p \in Procs : h[p].client = "held" }

\* C32: an invocation holds its connection from pool.connect() to the
\* finally block and at no other time; the connection is released in the
\* finally block only, once, and stays released, so an invocation that is
\* over, whatever its outcome, has released the connection it got, and with
\* no invocation running no connection is checked out.
C32_ReleasedOnce ==
    /\ [](\A p \in Procs :
            /\ h[p].client = "held" <=> h[p].pc \in HoldingPcs
            /\ Ended(p) /\ h[p].failedAt # "connect" => h[p].client = "released")
    /\ []((\A p \in Procs : h[p].pc \in {"idle", "returned"}) => CheckedOut = {})
    /\ [][\A p \in Procs :
            /\ h'[p].client = "released" /\ h[p].client # "released" =>
                  h[p].client = "held" /\ h[p].pc = "finally"
            /\ h[p].client = "released" => h'[p].client \in {"released", "none"}]_vars

\* A run whose history insert failed has returned, its connection released.
C32_Witness ==
    \E p \in Procs :
        /\ Ended(p)
        /\ h[p].failedAt = "insertHistory"
        /\ h[p].client = "released"
        /\ h[p].res = UnhandledException

DayIndex(d) == CHOOSE i \in DOMAIN DayStr : DayStr[i] = d

\* C34: the rows an invocation has written, before and after its COMMIT,
\* carry the run date it resolved when it started, forced or not; so of two
\* committed rows of LatestCurve or of CurveHistory, the one written by the
\* earlier run does not carry the later date.
C34_RowsCarryRunDate ==
    /\ \A p \in Procs :
          /\ \A r \in latest \cup history :
                r.xmin = p => r.as_of_date = h[p].todayStr
          /\ h[p].run > 0 =>
                /\ \A r \in CurveHistory :
                      r.inserted_at = h[p].run => r.as_of_date = h[p].todayStr
                /\ \A r \in LatestCurve :
                      r.updated_at = h[p].run => r.as_of_date = h[p].todayStr
    /\ \A x, y \in CurveHistory :
          x.inserted_at < y.inserted_at =>
              DayIndex(x.as_of_date) <= DayIndex(y.as_of_date)
    /\ \A x, y \in LatestCurve :
          x.updated_at < y.updated_at =>
              DayIndex(x.as_of_date) <= DayIndex(y.as_of_date)

\* A forced run of a sheet of two rows dated another day than the run date
\* has committed, after a run of the day before.
C34_Witness ==
    \E p \in Procs :
        /\ Ended(p) /\ Succeeded(p) /\ h[p].force
        /\ Len(h[p].rows) = 2
        /\ h[p].todayStr \notin uniqueDates(Parsed(p))
        /\ \E x, y \in CurveHistory :
              /\ x.inserted_at < y.inserted_at
              /\ y.inserted_at = h[p].run
              /\ x.as_of_date # y.as_of_date

\* History row x is the entry of latest row r.
EntryOf(x, r) ==
    /\ x.as_of_date = r.as_of_date
    /\ x.metal = r.metal
    /\ x.tenor_months = r.tenor_months
    /\ x.price = r.price
    /\ x.real_10yr_yld = r.real_10yr_yld

\* C35: with invocations one after the other, every committed row of
\* LatestCurve has a committed row of CurveHistory with the same date,
\* metal, tenor and values.
C35_LatestHasHistory ==
    \A r \in LatestCurve : \E x \in CurveHistory : EntryOf(x, r)

\* After a second successful run, LatestCurve holds a row that the first
\* run wrote and a row of the second.
C35_Witness ==
    \E p \in Procs :
        /\ Ended(p) /\ Succeeded(p)
        /\ pre[p].latest # {}
        /\ \E r, s \in LatestCurve :
              r.updated_at = h[p].run /\ s.updated_at < h[p].run

\* C36: the history rows a transaction has marked for deletion are rows of
\* its sheetDate, the run date, and the transaction is of a forced run; a
\* committed row
\* leaves CurveHistory, or changes, only in the COMMIT of a forced run and
\* only if it is dated the sheetDate of that run.
C36_HistoryFrame ==
    /\ [](\A p \in Procs : \A r \in history :
            r.xmax = p =>
                /\ h[p].force
                /\ r.as_of_date = h[p].todayStr
                /\ h[p].pc \in TxPcs => r.as_of_date = h[p].sheetDate)
    /\ [][\A r \in CurveHistory \ CurveHistory' :
            \E p \in Procs :
                /\ h[p].pc = "commit"
                /\ h[p].force
                /\ r.as_of_date = h[p].sheetDate]_vars

\* A forced run has replaced the history rows of its date, and the rows of
\* another date that CurveHistory held are still there.
C36_Witness ==
    \E p \in Procs :
        /\ Ended(p) /\ Succeeded(p) /\ h[p].force
        /\ HistoryBefore(p, h[p].todayStr) # {}
        /\ HistoryBefore(p, h[p].todayStr) \cap CurveHistory = {}
        /\ \E r \in pre[p].history :
              r.as_of_date # h[p].todayStr /\ r \in CurveHistory

C37_Case(p) ==
    /\ Ended(p)
    /\ ~h[p].force
    /\ HistoryBefore(p, h[p].todayStr) # {}
    /\ ~SuccessOn(pre[p].log, h[p].todayStr)

\* C37: a non-forced invocation, scheduled or manual, that starts when
\* CurveHistory holds a batch of the run date of which the audit log has no
\* success record, leaves LatestCurve and CurveHistory as they were; if its
\* sheet is dated the run date and no statement throws, it answers 409 with
\* status "exists" and logs skipped / history_exists_for_date.
C37_ConflictBacksUpGuard ==
    \A p \in Procs :
        C37_Case(p) =>
            /\ TablesAsBefore(p)
            /\ NoThrow(p) /\ h[p].rows # <<>>
                  /\ uniqueDates(Parsed(p)) = {h[p].todayStr} =>
                  /\ Conflict(p)
                  /\ h[p].res.body.status = "exists"
                  /\ h[p].res.body.existing_rows = HistoryBefore(p, h[p].todayStr)
                  /\ h[p].logArgs = [status |-> "skipped",
                                     reason |-> <<"history_exists_for_date">>,
                                     rowCount |-> Cardinality(
                                         HistoryBefore(p, h[p].todayStr))]

\* A scheduled run has ended in the conflict on a day whose batch is
\* committed and whose success record is missing.
C37_Witness ==
    \E p \in Procs :
        /\ C37_Case(p)
        /\ Scheduled(h[p].source)
        /\ Conflict(p)
        /\ \A j \in 1..Len(pre[p].log) : pre[p].log[j].status # "success"

\* C39: the step after a call of logIngest, whether the insert went through
\* or failed, takes the invocation to its return with the response that
\* was prepared, leaves both tables alone and appends the record or
\* nothing; an invocation that is over after a failed audit insert did not
\* go through the catch block, and if it committed a batch its response is
\* the success response.
C39_LogFailureSwallowed ==
    /\ [][\A p \in Procs :
            h[p].pc = "logIngest" /\ h'[p] # h[p] =>
                /\ [h'[p] EXCEPT !.failedAt = h[p].failedAt]
                      = [h[p] EXCEPT !.pc = "finally"]
                /\ latest' = latest
                /\ history' = history
                /\ log' = log \/ log' = Append(log, LogRecord(p))]_vars
    /\ [](\A p \in Procs :
            Ended(p) /\ h[p].failedAt = "logIngest" =>
                /\ h[p].res # UnhandledException
                /\ OwnRecords(p) = {}
                /\ ~TablesAsBefore(p) => Succeeded(p))

\* The success record of a run could not be inserted after its COMMIT; the
\* run has answered with the success response and the batch is there.
C39_Witness ==
    \E p \in Procs :
        /\ Ended(p)
        /\ h[p].failedAt = "logIngest"
        /\ Succeeded(p)
        /\ log = pre[p].log
        /\ \E r \in CurveHistory : r.inserted_at = h[p].run

\* The history rows the /api/run request has inserted.
LoadedRows == { r \in CurveHistory : r.inserted_at = ld.run }

\* C38: a request to /api/run that comes in when CurveHistory holds a batch
\* of a date inserts no history row of that date, and a request that has
\* ended with an error has inserted no history row at all.
C38_OneBatchAcrossEntryPoints ==
    ld.pc # "idle" =>
        /\ \A r \in LoadedRows : \A x \in ld.before : x.as_of_date # r.as_of_date
        /\ ld.pc = "returned" /\ ld.res.code = 500 => LoadedRows = {}

====
